---- MODULE Spec2Model ----
(***************************************************************************)
(* A model of git_template_cli/cli.py: the `list` and `create` commands,   *)
(* the casing helpers, the recursive resource copy, the rename/rewrite     *)
(* walk over the copied tree and the git side effects.                     *)
(*                                                                         *)
(* A Python str is modelled as a sequence of one-character strings, so     *)
(* that str.replace, str.capitalize, str.lower and the two re.sub calls of *)
(* kebab_case are computed character by character.  The byte that makes a  *)
(* file undecodable as UTF-8 is written "0xFF".                            *)
(***************************************************************************)
EXTENDS Naturals, Sequences, FiniteSets

(***************************************************************************)
(* Characters                                                              *)
(***************************************************************************)
Upper == <<"A", "B", "C", "D", "E", "F", "G", "H", "I", "J", "K", "L", "M",
           "N", "O", "P", "Q", "R", "S", "T", "U", "V", "W", "X", "Y", "Z">>
Lower == <<"a", "b", "c", "d", "e", "f", "g", "h", "i", "j", "k", "l", "m",
           "n", "o", "p", "q", "r", "s", "t", "u", "v", "w", "x", "y", "z">>
Digits == <<"0", "1", "2", "3", "4", "5", "6", "7", "8", "9">>

\* The characters of the model in code point order (what sorted() compares).
CodePoints == <<" ", "-", ".">> \o Digits \o <<":">> \o Upper \o <<"_">> \o Lower \o <<"0xFF">>

Range(s) == {s[i] : i \in 1..Len(s)}
IsUpper(c) == c \in Range(Upper)
IsLower(c) == c \in Range(Lower)
IsDigit(c) == c \in Range(Digits)
IndexIn(s, c) == CHOOSE i \in 1..Len(s) : s[i] = c
Ord(c) == IndexIn(CodePoints, c)
ToLower(c) == IF IsUpper(c) THEN Lower[IndexIn(Upper, c)] ELSE c
ToUpper(c) == IF IsLower(c) THEN Upper[IndexIn(Lower, c)] ELSE c

(***************************************************************************)
(* Python str methods used by cli.py                                       *)
(***************************************************************************)
StartsWith(s, p) == Len(p) <= Len(s) /\ SubSeq(s, 1, Len(p)) = p

\* `sub in s`
Contains(s, sub) == \E i \in 0..(Len(s) - Len(sub)) : SubSeq(s, i + 1, i + Len(sub)) = sub

\* s.lower()
lower(s) == [i \in 1..Len(s) |-> ToLower(s[i])]

\* word.capitalize(): first character upper-cased, all the others lower-cased
capitalize(w) == [i \in 1..Len(w) |-> IF i = 1 THEN ToUpper(w[i]) ELSE ToLower(w[i])]

\* s.replace(old, new): left to right, non-overlapping; an empty `old`
\* matches before every character and at the end.
RECURSIVE replaceEmpty(_, _)
replaceEmpty(s, new) ==
    IF s = <<>> THEN new ELSE new \o <<Head(s)>> \o replaceEmpty(Tail(s), new)

RECURSIVE replaceNonEmpty(_, _, _)
replaceNonEmpty(s, old, new) ==
    IF s = <<>> THEN <<>>
    ELSE IF StartsWith(s, old)
         THEN new \o replaceNonEmpty(SubSeq(s, Len(old) + 1, Len(s)), old, new)
         ELSE <<Head(s)>> \o replaceNonEmpty(Tail(s), old, new)

replace(s, old, new) ==
    IF old = <<>> THEN replaceEmpty(s, new) ELSE replaceNonEmpty(s, old, new)

\* re.split(r'[-_]', name): the segments between separators, empty ones kept
RECURSIVE re_split(_)
re_split(s) ==
    LET seps == {i \in 1..Len(s) : s[i] \in {"-", "_"}}
    IN  IF seps = {} THEN <<s>>
        ELSE LET i == CHOOSE k \in seps : \A j \in seps : k <= j
             IN  <<SubSeq(s, 1, i - 1)>> \o re_split(SubSeq(s, i + 1, Len(s)))

\* "".join(words)
RECURSIVE join(_)
join(ws) == IF ws = <<>> THEN <<>> ELSE Head(ws) \o join(Tail(ws))

pascal_case(name) ==
    LET words == re_split(name)
    IN  join([i \in 1..Len(words) |-> capitalize(words[i])])

\* number of consecutive [a-z] characters of s from position i on
RECURSIVE LowerRun(_, _)
LowerRun(s, i) == IF i <= Len(s) /\ IsLower(s[i]) THEN 1 + LowerRun(s, i + 1) ELSE 0

\* re.sub('(.)([A-Z][a-z]+)', r'\1-\2', s): leftmost matches, scanning on
\* after the end of each match
RECURSIVE re_sub1(_)
re_sub1(s) ==
    IF Len(s) < 3 THEN s
    ELSE IF IsUpper(s[2]) /\ IsLower(s[3])
         THEN LET e == 2 + LowerRun(s, 3)
              IN  <<s[1], "-">> \o SubSeq(s, 2, e) \o re_sub1(SubSeq(s, e + 1, Len(s)))
         ELSE <<s[1]>> \o re_sub1(Tail(s))

\* re.sub('([a-z0-9])([A-Z])', r'\1-\2', s)
RECURSIVE re_sub2(_)
re_sub2(s) ==
    IF Len(s) < 2 THEN s
    ELSE IF (IsLower(s[1]) \/ IsDigit(s[1])) /\ IsUpper(s[2])
         THEN <<s[1], "-", s[2]>> \o re_sub2(SubSeq(s, 3, Len(s)))
         ELSE <<s[1]>> \o re_sub2(Tail(s))

kebab_case(name) == lower(re_sub2(re_sub1(name)))

\* s.lower().replace('-', '_')
snake_case(s) == replace(lower(s), <<"-">>, <<"_">>)

\* the order sorted() puts two str in
LexLess(a, b) ==
    \E i \in 1..(Len(a) + 1) :
        /\ i <= Len(b)
        /\ SubSeq(a, 1, i - 1) = SubSeq(b, 1, i - 1)
        /\ (i = Len(a) + 1 \/ Ord(a[i]) < Ord(b[i]))

\* sorted(S) of a collection without duplicates
RECURSIVE sorted(_)
sorted(S) ==
    IF S = {} THEN <<>>
    ELSE LET m == CHOOSE x \in S : \A y \in S : x = y \/ LexLess(x, y)
         IN  <<m>> \o sorted(S \ {m})

(***************************************************************************)
(* Names and contents the model draws its inputs from                      *)
(***************************************************************************)
COMPONENT_NAME == <<"C", "O", "M", "P", "O", "N", "E", "N", "T", "_", "N", "A", "M", "E">>
component_name_kebab == <<"c", "o", "m", "p", "o", "n", "e", "n", "t", "_", "n", "a", "m", "e",
                          "_", "k", "e", "b", "a", "b">>
SERVICE_NAME == <<"S", "E", "R", "V", "I", "C", "E", "_", "N", "A", "M", "E">>
service_name_snake == <<"s", "e", "r", "v", "i", "c", "e", "_", "n", "a", "m", "e",
                        "_", "s", "n", "a", "k", "e">>
PROJECT_NAME == <<"P", "R", "O", "J", "E", "C", "T", "_", "N", "A", "M", "E">>
LICENSE_TYPE == <<"L", "I", "C", "E", "N", "S", "E", "_", "T", "Y", "P", "E">>
YEAR == <<"Y", "E", "A", "R">>
MIT_License == <<"M", "I", "T", " ", "L", "i", "c", "e", "n", "s", "e">>

react_component == <<"r", "e", "a", "c", "t", "-", "c", "o", "m", "p", "o", "n", "e", "n", "t">>
python_service == <<"p", "y", "t", "h", "o", "n", "-", "s", "e", "r", "v", "i", "c", "e">>
basic == <<"b", "a", "s", "i", "c">>
README == <<"R", "E", "A", "D", "M", "E">>

MyButton == <<"M", "y", "B", "u", "t", "t", "o", "n">>
demo == <<"d", "e", "m", "o">>
my_api == <<"m", "y", "-", "a", "p", "i">>

\* str(datetime.now().year) on the day of the run
CurrentYear == <<"2", "0", "2", "6">>

\* the most files a template tree of the model holds
MaxFiles == 2
\* the most operations of the walk the operating system refuses in one run
MaxFaults == 1

TemplateNames == {react_component, python_service, basic}
\* what the user may type as <template-name>
TemplateArgs == TemplateNames \cup {README}
\* what the user may type as <new-item-name>
ItemNames == {MyButton, demo, my_api}

\* directories of a tree, relative to its top: the top itself and one child
RootDir == <<>>
SubDir == demo

\* The files a template tree may hold.  id names the file's identity, which
\* a rename keeps and a copy takes over from the template file.
FileTsx == [id |-> 1, dir |-> RootDir,
            name |-> COMPONENT_NAME \o <<".", "t", "s", "x">>,
            body |-> COMPONENT_NAME \o <<":">> \o component_name_kebab]
FileTwoTokens == [id |-> 2, dir |-> RootDir,
                  name |-> PROJECT_NAME \o <<"_">> \o YEAR,
                  body |-> YEAR \o <<" ">> \o LICENSE_TYPE]
FileProjectMd == [id |-> 3, dir |-> RootDir,
                  name |-> PROJECT_NAME \o <<".", "m", "d">>,
                  body |-> PROJECT_NAME]
FileBinary == [id |-> 4, dir |-> RootDir,
               name |-> demo \o <<".", "m", "d">>,
               body |-> <<"0xFF">> \o YEAR]
FileInSubDir == [id |-> 5, dir |-> SubDir,
                 name |-> SERVICE_NAME \o <<".", "p", "y">>,
                 body |-> service_name_snake]
FileProject == [id |-> 6, dir |-> RootDir,
                name |-> PROJECT_NAME,
                body |-> <<"x">>]

TemplateFiles == {FileTsx, FileTwoTokens, FileProjectMd, FileBinary, FileInSubDir, FileProject}
Trees == {t \in SUBSET TemplateFiles : Cardinality(t) <= MaxFiles}

\* a child of the catalog root that is a template directory, and one that is a plain file
TemplateDir(n) == [name |-> n, is_dir |-> TRUE]
PlainFile(n) == [name |-> n, is_dir |-> FALSE]

\* the catalogs of the model: empty, holding only a plain file, and holding
\* one, two or three template directories beside the plain file
Catalogs ==
    {{}, {PlainFile(README)}}
        \cup {{PlainFile(README)} \cup {TemplateDir(n) : n \in D} :
                D \in {{basic}, {react_component, python_service}, TemplateNames}}

\* What pkg_resources.files(TEMPLATES_RESOURCE_PATH) does in this installation:
\*   "resource"          returns a Traversable that is a directory
\*   "iter_error"        returns a Traversable that cannot be listed: iterdir()
\*                       raises and no child of it is a directory
\*   "fnf_dir"           raises FileNotFoundError; <cli.py dir>/templates is a directory
\*   "fnf_nodir"         raises FileNotFoundError; <cli.py dir>/templates is missing
\*   "module_not_found"  raises ModuleNotFoundError (the package is not importable)
CatalogModes == {"resource", "iter_error", "fnf_dir", "fnf_nodir", "module_not_found"}

\* f.read() with encoding='utf-8' raises UnicodeDecodeError on this content
Decodable(body) == "0xFF" \notin Range(body)

Perms(S) == {p \in [1..Cardinality(S) -> S] : \A i, j \in 1..Cardinality(S) : p[i] = p[j] => i = j}

\* an output line of click.echo
Line(kind, text) == [kind |-> kind, text |-> text]
\* an operation on the filesystem
Event(op, id, victim, e) == [op |-> op, id |-> id, victim |-> victim, entry |-> e]


(***************************************************************************)
(* Placeholder table and content rewriting                                 *)
(***************************************************************************)
\* placeholders.get(template_name, {}) as the ordered (token, value) pairs
placeholders(t, n) ==
    IF t = react_component
    THEN << <<COMPONENT_NAME, pascal_case(n)>>, <<component_name_kebab, kebab_case(n)>> >>
    ELSE IF t = python_service
    THEN << <<SERVICE_NAME, n>>, <<service_name_snake, snake_case(n)>> >>
    ELSE IF t = basic
    THEN << <<PROJECT_NAME, n>>, <<LICENSE_TYPE, MIT_License>>, <<YEAR, CurrentYear>> >>
    ELSE <<>>

\* the three replacements the content loop makes for one placeholder
replace_placeholder(content, ph) ==
    LET c1 == replace(content, ph[1], ph[2])
        c2 == replace(c1, kebab_case(ph[1]), kebab_case(ph[2]))
    IN  replace(c2, snake_case(ph[1]), snake_case(ph[2]))

\* the content loop over all placeholders, from placeholder i on
RECURSIVE rewrite_content(_, _, _)
rewrite_content(content, phs, i) ==
    IF i > Len(phs) THEN content
    ELSE rewrite_content(replace_placeholder(content, phs[i]), phs, i + 1)

(***************************************************************************)
(* The filesystem below --path.  A directory is [root, dir]: dir RootDir   *)
(* is the destination <path>/<root> itself.  A file is [root, dir, name,   *)
(* id, body].                                                              *)
(***************************************************************************)
\* a destination that exists before the run holds one file of its own
InitialDirs(ex) == {[root |-> r, dir |-> RootDir] : r \in ex}
InitialFiles(ex) == {[root |-> r, dir |-> RootDir, name |-> <<"x">>, id |-> 0, body |-> <<"x">>] : r \in ex}

\* (mutant) the existence check looks at nothing and finds nothing
path_exists_never(ds, n) == FALSE

\* os.path.exists(os.path.join(path, new_item_name))
path_exists(ds, n) == [root |-> n, dir |-> RootDir] \in ds

FilesAt(fs, r, d, nm) == {f \in fs : f.root = r /\ f.dir = d /\ f.name = nm}
\* os.path.isfile(os.path.join(root, name))
isfile(fs, r, d, nm) == FilesAt(fs, r, d, nm) # {}
\* the name is a directory inside directory d
isdir(ds, r, d, nm) == d = RootDir /\ nm # RootDir /\ [root |-> r, dir |-> nm] \in ds

\* os.rename(src, dst) inside directory d (POSIX): a missing source or a
\* directory at the target raises OSError; a file at the target is replaced.
os_rename(fs, ds, r, d, src, dst) ==
    LET from == FilesAt(fs, r, d, src)
        onto == FilesAt(fs, r, d, dst)
    IN  IF from = {} \/ isdir(ds, r, d, dst)
        THEN [ok |-> FALSE, files |-> fs, id |-> 0, victim |-> 0]
        ELSE LET f == CHOOSE x \in from : TRUE
             IN  IF src = dst
                 THEN [ok |-> TRUE, files |-> fs, id |-> f.id, victim |-> 0]
                 ELSE [ok |-> TRUE,
                       files |-> (fs \ (from \cup onto)) \cup {[f EXCEPT !.name = dst]},
                       id |-> f.id,
                       victim |-> IF onto = {} THEN 0 ELSE (CHOOSE x \in onto : TRUE).id]

\* copy_resource_dir of the template files in `part` into destination r:
\* the directories are made first, each file is opened 'wb' and filled.
copied_dirs(ds, r, part) == ds \cup {[root |-> r, dir |-> RootDir]} \cup {[root |-> r, dir |-> f.dir] : f \in part}
copied_files(fs, r, part) ==
    {g \in fs : ~\E f \in part : g.root = r /\ g.dir = f.dir /\ g.name = f.name}
        \cup {[root |-> r, dir |-> f.dir, name |-> f.name, id |-> f.id, body |-> f.body] : f \in part}

RECURSIVE copy_events(_)
copy_events(part) ==
    IF part = {} THEN <<>>
    ELSE LET f == CHOOSE x \in part : \A y \in part : x.id <= y.id
         IN  <<Event("open_wb", f.id, 0, 0)>> \o copy_events(part \ {f})

(***************************************************************************)
(* list_templates                                                          *)
(***************************************************************************)
\* the lines printed for a listing that found `templates`
listing_lines(templates) ==
    IF templates # {}
    THEN LET names == sorted(templates)
         IN  <<Line("available_templates", <<>>)>>
                 \o [i \in 1..Len(names) |-> Line("template", names[i])]
    ELSE <<Line("no_templates_found", <<>>)>>

\* list_templates(): what it prints and whether it ends by an uncaught exception
list_templates(mode, cat) ==
    LET templates == {c.name : c \in {x \in cat : x.is_dir}}
    IN  IF mode = "module_not_found"
        THEN [out |-> <<Line("traceback_ModuleNotFoundError", <<>>)>>, raised |-> TRUE]
        ELSE IF mode = "fnf_nodir"
        THEN [out |-> <<Line("error_base_directory_missing", <<>>)>>, raised |-> FALSE]
        ELSE IF mode = "iter_error"
        THEN [out |-> <<Line("error_reading_templates", <<>>)>>, raised |-> FALSE]
        ELSE [out |-> listing_lines(templates), raised |-> FALSE]


(***************************************************************************)
(* State                                                                   *)
(***************************************************************************)
VARIABLES
    pc,             \* where the process is: "idle", a stage of create, or "done"
    cmd,            \* the subcommand invoked: "none", "list" or "create"
    template_name,  \* create's arguments
    new_item_name,
    catalogMode,    \* the installation: one of CatalogModes
    catalog,        \* the children of the catalog root
    tree,           \* source_template_resource: the files of the template
    existing,       \* the destinations that exist before the run
    dirs,           \* the directories below --path
    files,          \* the files below --path
    stack,          \* os.walk: the directories still to be scanned
    walkDir,        \* os.walk: `root` of the current iteration
    walkFiles,      \* os.walk: what is left of `files` of the current iteration
    filename,       \* the loop variables of the current file
    filepath,
    entry,          \* how many files the walk has taken up
    fsLog,          \* the filesystem operations of the run, in order
    gitLog,         \* the git commands of the run, in order
    out,            \* the lines printed, in order
    faults,         \* how many operations of the walk the operating system refused
    exit_code       \* the exit status the process ends with: 0 unless sys.exit(1)
                    \* or an uncaught exception makes it 1

vars == <<pc, cmd, template_name, new_item_name, catalogMode, catalog, tree, existing,
          dirs, files, stack, walkDir, walkFiles, filename, filepath, entry,
          fsLog, gitLog, out, faults, exit_code>>

envVars == <<catalogMode, catalog, existing>>
walkVars == <<stack, walkDir, walkFiles, filename, filepath, entry>>
argVars == <<cmd, template_name, new_item_name>>

Init ==
    /\ pc = "idle"
    /\ cmd = "none"
    /\ template_name = <<>>
    /\ new_item_name = <<>>
    /\ catalogMode \in CatalogModes
    /\ catalog \in Catalogs
    /\ catalogMode \notin {"resource", "fnf_dir"} => catalog = {}
    /\ tree = {}
    /\ existing \in {{}, {demo}}
    /\ dirs = InitialDirs(existing)
    /\ files = InitialFiles(existing)
    /\ stack = <<>>
    /\ walkDir = RootDir
    /\ walkFiles = <<>>
    /\ filename = <<>>
    /\ filepath = <<>>
    /\ entry = 0
    /\ fsLog = <<>>
    /\ gitLog = <<>>
    /\ out = <<>>
    /\ faults = 0
    /\ exit_code = 0

(***************************************************************************)
(* list                                                                    *)
(***************************************************************************)
\* `git template list`: list_templates(), then the process ends
RunList ==
    /\ pc = "idle"
    /\ LET r == list_templates(catalogMode, catalog)
       IN  /\ out' = out \o r.out
           /\ exit_code' = IF r.raised THEN 1 ELSE 0
    /\ cmd' = "list"
    /\ pc' = "done"
    /\ UNCHANGED <<template_name, new_item_name, envVars, faults, tree, dirs, files, walkVars, fsLog, gitLog>>

(***************************************************************************)
(* create                                                                  *)
(***************************************************************************)
\* `git template create <template-name> <new-item-name>`
InvokeCreate ==
    /\ pc = "idle"
    /\ \E t \in TemplateArgs, n \in ItemNames :
           /\ template_name' = t
           /\ new_item_name' = n
    /\ cmd' = "create"
    /\ pc' = "lookup"
    /\ UNCHANGED <<envVars, faults, tree, dirs, files, walkVars, fsLog, gitLog, out, exit_code>>

\* files(TEMPLATES_RESOURCE_PATH) returns and (it / template_name).is_dir()
template_is_dir(mode, cat, t) ==
    /\ mode = "resource"
    /\ TemplateDir(t) \in cat

\* the except branch: the error line, list_templates(), sys.exit(1)
TemplateNotFound ==
    /\ pc = "lookup"
    /\ ~template_is_dir(catalogMode, catalog, template_name)
    /\ out' = out \o <<Line("error_template_not_found", template_name)>>
                  \o list_templates(catalogMode, catalog).out
    /\ exit_code' = 1
    /\ pc' = "done"
    /\ UNCHANGED <<argVars, envVars, faults, tree, dirs, files, walkVars, fsLog, gitLog>>

\* the template is a directory resource; its files are those of some tree
TemplateFound ==
    /\ pc = "lookup"
    /\ template_is_dir(catalogMode, catalog, template_name)
    /\ tree' \in Trees
    /\ pc' = "check_destination"
    /\ UNCHANGED <<argVars, envVars, faults, dirs, files, walkVars, fsLog, gitLog, out, exit_code>>

\* os.path.exists(destination_path): the error line, sys.exit(1)
DestinationExists ==
    /\ pc = "check_destination"
    /\ path_exists(dirs, new_item_name)
    /\ out' = Append(out, Line("error_destination_exists", new_item_name))
    /\ exit_code' = 1
    /\ pc' = "done"
    /\ UNCHANGED <<argVars, envVars, faults, tree, dirs, files, walkVars, fsLog, gitLog>>

DestinationFree ==
    /\ pc = "check_destination"
    /\ ~path_exists(dirs, new_item_name)
    /\ out' = Append(out, Line("creating", new_item_name))
    /\ pc' = "copy"
    /\ UNCHANGED <<argVars, envVars, faults, tree, dirs, files, walkVars, fsLog, gitLog, exit_code>>

\* copy_resource_dir copies the whole template
CopyTemplate ==
    /\ pc = "copy"
    /\ dirs' = copied_dirs(dirs, new_item_name, tree)
    /\ files' = copied_files(files, new_item_name, tree)
    /\ fsLog' = fsLog \o <<Event("makedirs", 0, 0, 0)>> \o copy_events(tree)
    /\ stack' = <<RootDir>>
    /\ pc' = "walk"
    /\ UNCHANGED <<argVars, envVars, faults, tree, walkDir, walkFiles, filename, filepath, entry,
                   gitLog, out, exit_code>>

\* (mutant) after a failed copy: the error line, and create goes on
copy_failure_continue ==
    /\ out' = Append(out, Line("error_copying", <<>>))
    /\ stack' = <<RootDir>>
    /\ pc' = "walk"
    /\ UNCHANGED <<exit_code>>

\* after a failed copy: the error line, sys.exit(1)
copy_failure_exit ==
    /\ out' = Append(out, Line("error_copying", <<>>))
    /\ exit_code' = 1
    /\ pc' = "done"
    /\ UNCHANGED <<stack>>

\* copy_resource_dir raises: os.makedirs failed (made = FALSE), or only `part`
\* of the template was copied, the file being written (broken) left empty
CopyFailure ==
    /\ pc = "copy"
    /\ \E made \in BOOLEAN, part \in SUBSET tree :
       \E broken \in {b \in SUBSET (tree \ part) : Cardinality(b) <= 1} :
           /\ made => part # tree
           /\ ~made => part = {} /\ broken = {}
           /\ LET empty == {[f EXCEPT !.body = <<>>] : f \in broken}
              IN  /\ dirs' = IF made THEN copied_dirs(dirs, new_item_name, part \cup broken) ELSE dirs
                  /\ files' = IF made THEN copied_files(files, new_item_name, part \cup empty) ELSE files
                  /\ fsLog' = IF made
                              THEN fsLog \o <<Event("makedirs", 0, 0, 0)>> \o copy_events(part \cup broken)
                              ELSE fsLog
    /\ copy_failure_exit
    /\ UNCHANGED <<argVars, envVars, faults, tree, walkDir, walkFiles, filename, filepath, entry, gitLog>>

(***************************************************************************)
(* create: the walk over the copied tree                                   *)
(***************************************************************************)
\* os.walk comes to the next directory: its files are listed now, in the
\* order the directory gives them; its subdirectories are walked after them
WalkDir ==
    /\ pc = "walk"
    /\ walkFiles = <<>>
    /\ stack # <<>>
    /\ LET d == Head(stack)
           names == {f.name : f \in {x \in files : x.root = new_item_name /\ x.dir = d}}
           subs == IF d = RootDir
                   THEN {x.dir : x \in {y \in dirs : y.root = new_item_name /\ y.dir # RootDir}}
                   ELSE {}
       IN  /\ walkDir' = d
           /\ walkFiles' \in Perms(names)
           /\ \E order \in Perms(subs) : stack' = order \o Tail(stack)
    /\ UNCHANGED <<pc, argVars, envVars, faults, tree, dirs, files, filename, filepath, entry,
                   fsLog, gitLog, out, exit_code>>

\* The rename loop of one file, from placeholder i on.  c holds what the loop
\* reads: root, dirs, dir, filename, phs, entry, and failAt, the iteration at
\* which the operating system refuses the rename (0: it never does).
\* st = [files, filepath, log, raised].  `filename` is never reassigned.
RECURSIVE rename_loop(_, _, _)
rename_loop(st, c, i) ==
    IF st.raised \/ i > Len(c.phs) THEN st
    ELSE IF ~Contains(c.filename, c.phs[i][1]) THEN rename_loop(st, c, i + 1)
    ELSE LET new_filename == replace(c.filename, c.phs[i][1], c.phs[i][2])
             r == os_rename(st.files, c.dirs, c.root, c.dir, st.filepath, new_filename)
         IN  IF c.failAt = i \/ ~r.ok
             THEN [st EXCEPT !.raised = TRUE]
             ELSE rename_loop([files |-> r.files,
                               filepath |-> new_filename,
                               log |-> Append(st.log, Event("rename", r.id, r.victim, c.entry)),
                               raised |-> FALSE], c, i + 1)

name_pass(failAt) ==
    rename_loop([files |-> files, filepath |-> Head(walkFiles), log |-> <<>>, raised |-> FALSE],
                [root |-> new_item_name, dirs |-> dirs, dir |-> walkDir,
                 filename |-> Head(walkFiles),
                 phs |-> placeholders(template_name, new_item_name),
                 entry |-> entry + 1, failAt |-> failAt],
                1)

\* the next file of the listing: its renames all succeed
NamePass ==
    /\ pc = "walk"
    /\ walkFiles # <<>>
    /\ LET st == name_pass(0)
       IN  /\ ~st.raised
           /\ files' = st.files
           /\ filepath' = st.filepath
           /\ fsLog' = fsLog \o st.log
    /\ filename' = Head(walkFiles)
    /\ walkFiles' = Tail(walkFiles)
    /\ entry' = entry + 1
    /\ pc' = "content"
    /\ UNCHANGED <<argVars, envVars, faults, tree, dirs, stack, walkDir, gitLog, out, exit_code>>

\* the next file of the listing: os.rename raises, nothing catches it and
\* the process ends with a traceback
NamePassRaises ==
    /\ pc = "walk"
    /\ walkFiles # <<>>
    /\ \E failAt \in 0..Len(placeholders(template_name, new_item_name)) :
           LET st == name_pass(failAt)
           IN  /\ st.raised
               /\ failAt # 0 => faults < MaxFaults
               /\ faults' = IF failAt # 0 THEN faults + 1 ELSE faults
               /\ files' = st.files
               /\ filepath' = st.filepath
               /\ fsLog' = fsLog \o st.log
    /\ filename' = Head(walkFiles)
    /\ walkFiles' = Tail(walkFiles)
    /\ entry' = entry + 1
    /\ out' = Append(out, Line("traceback_OSError", Head(walkFiles)))
    /\ exit_code' = 1
    /\ pc' = "done"
    /\ UNCHANGED <<argVars, envVars, tree, dirs, stack, walkDir, gitLog>>

\* the file the content pass works on
current_file == CHOOSE f \in FilesAt(files, new_item_name, walkDir, filepath) : TRUE

\* the content pass reads the file as text, replaces and writes it back
\* (nothing at all when filepath is no file)
ContentPass ==
    /\ pc = "content"
    /\ IF isfile(files, new_item_name, walkDir, filepath)
       THEN LET f == current_file
                content == rewrite_content(f.body, placeholders(template_name, new_item_name), 1)
            IN  /\ Decodable(f.body)
                /\ files' = (files \ {f}) \cup {[f EXCEPT !.body = content]}
                /\ fsLog' = fsLog \o <<Event("open_r", f.id, 0, entry), Event("open_w", f.id, 0, entry)>>
       ELSE UNCHANGED <<files, fsLog>>
    /\ pc' = "walk"
    /\ UNCHANGED <<argVars, envVars, faults, tree, dirs, walkVars, gitLog, out, exit_code>>

\* f.read() raises UnicodeDecodeError: the notice, the file is left alone
ContentSkipBinary ==
    /\ pc = "content"
    /\ isfile(files, new_item_name, walkDir, filepath)
    /\ ~Decodable(current_file.body)
    /\ fsLog' = Append(fsLog, Event("open_r", current_file.id, 0, entry))
    /\ out' = Append(out, Line("skipping_binary", filepath))
    /\ pc' = "walk"
    /\ UNCHANGED <<argVars, envVars, faults, tree, dirs, files, walkVars, gitLog, exit_code>>

\* open(filepath, 'r') or f.read() raises another exception: the error line
ContentReadError ==
    /\ pc = "content"
    /\ isfile(files, new_item_name, walkDir, filepath)
    /\ faults < MaxFaults
    /\ faults' = faults + 1
    /\ fsLog' = Append(fsLog, Event("open_r", current_file.id, 0, entry))
    /\ out' = Append(out, Line("error_processing", filepath))
    /\ pc' = "walk"
    /\ UNCHANGED <<argVars, envVars, tree, dirs, files, walkVars, gitLog, exit_code>>

\* open(filepath, 'w') raises (the file is as before) or f.write() raises
\* (the file was truncated by the open): the error line
ContentWriteError ==
    /\ pc = "content"
    /\ isfile(files, new_item_name, walkDir, filepath)
    /\ Decodable(current_file.body)
    /\ faults < MaxFaults
    /\ faults' = faults + 1
    /\ \E truncated \in BOOLEAN :
           files' = IF truncated
                    THEN (files \ {current_file}) \cup {[current_file EXCEPT !.body = <<>>]}
                    ELSE files
    /\ fsLog' = fsLog \o <<Event("open_r", current_file.id, 0, entry),
                           Event("open_w", current_file.id, 0, entry)>>
    /\ out' = Append(out, Line("error_processing", filepath))
    /\ pc' = "walk"
    /\ UNCHANGED <<argVars, envVars, tree, dirs, walkVars, gitLog, exit_code>>

\* the walk has no directory left: the success line
WalkEnd ==
    /\ pc = "walk"
    /\ walkFiles = <<>>
    /\ stack = <<>>
    /\ out' = Append(out, Line("successfully_created", new_item_name))
    /\ pc' = "git_branch"
    /\ UNCHANGED <<argVars, envVars, faults, tree, dirs, files, walkVars, fsLog, gitLog, exit_code>>

(***************************************************************************)
(* create: git                                                             *)
(***************************************************************************)
Git(command, arg) == [cmd |-> command, arg |-> arg]

\* the branch step, for either value of --no-git-branch and either answer
\* of `git rev-parse --is-inside-work-tree`
GitBranch ==
    /\ pc = "git_branch"
    /\ \E no_git_branch \in BOOLEAN, inside_work_tree \in BOOLEAN :
           IF no_git_branch
           THEN /\ out' = Append(out, Line("skipping_branch_flag", <<>>))
                /\ gitLog' = gitLog
           ELSE IF inside_work_tree
           THEN /\ out' = Append(out, Line("creating_branch", kebab_case(new_item_name)))
                /\ gitLog' = gitLog \o <<Git("rev-parse", <<>>),
                                         Git("checkout -b feat/", kebab_case(new_item_name))>>
           ELSE /\ out' = Append(out, Line("not_a_repository_branch", <<>>))
                /\ gitLog' = Append(gitLog, Git("rev-parse", <<>>))
    /\ pc' = "git_add"
    /\ UNCHANGED <<argVars, envVars, faults, tree, dirs, files, walkVars, fsLog, exit_code>>

\* the staging step, for either value of --no-git-add; create returns
GitAdd ==
    /\ pc = "git_add"
    /\ \E no_git_add \in BOOLEAN, inside_work_tree \in BOOLEAN :
           IF no_git_add
           THEN /\ out' = Append(out, Line("skipping_add_flag", <<>>))
                /\ gitLog' = gitLog
           ELSE IF inside_work_tree
           THEN /\ out' = Append(out, Line("adding_files", new_item_name))
                /\ gitLog' = gitLog \o <<Git("rev-parse", <<>>), Git("add", new_item_name)>>
           ELSE /\ out' = Append(out, Line("not_a_repository_add", <<>>))
                /\ gitLog' = Append(gitLog, Git("rev-parse", <<>>))
    /\ pc' = "done"
    /\ UNCHANGED <<argVars, envVars, faults, tree, dirs, files, walkVars, fsLog, exit_code>>

Next ==
    \/ RunList
    \/ InvokeCreate
    \/ TemplateNotFound
    \/ TemplateFound
    \/ DestinationExists
    \/ DestinationFree
    \/ CopyTemplate
    \/ CopyFailure
    \/ WalkDir
    \/ NamePass
    \/ NamePassRaises
    \/ ContentPass
    \/ ContentSkipBinary
    \/ ContentReadError
    \/ ContentWriteError
    \/ WalkEnd
    \/ GitBranch
    \/ GitAdd

Spec == Init /\ [][Next]_vars
(***************************************************************************)
(* Properties                                                              *)
(***************************************************************************)
HasLine(kind) == \E i \in 1..Len(out) : out[i].kind = kind
\* the files of the destination tree of this run
DestFiles == {f \in files : f.root = new_item_name}
\* the operations of the run that touch the file with identity id
Touching(id) == {i \in 1..Len(fsLog) : fsLog[i].op \in {"rename", "open_r", "open_w"}
                                        /\ (fsLog[i].id = id \/ fsLog[i].victim = id)}
\* create has printed the success line and returned without any per-file error
CleanSuccess == pc = "done" /\ cmd = "create" /\ exit_code = 0 /\ ~HasLine("error_processing")

\* C1: a create run whose template name is no directory of the catalog, or
\* whose destination exists already, never changes the filesystem (no
\* operation is logged, directories and files are those of before the run),
\* goes on until it has ended, and ends with exit code 1.
C1_NoMutationOnPreconditionFailure ==
    (cmd = "create" /\ (TemplateDir(template_name) \notin catalog \/ new_item_name \in existing))
        => /\ fsLog = <<>>
           /\ dirs = InitialDirs(existing)
           /\ files = InitialFiles(existing)
           /\ pc = "done" => exit_code = 1
           /\ pc # "done" => ENABLED Next

\* C1 witness: create found the template, found the destination in place, and ended
C1_Witness ==
    /\ pc = "done"
    /\ cmd = "create"
    /\ TemplateDir(template_name) \in catalog
    /\ new_item_name \in existing
    /\ HasLine("error_destination_exists")
    /\ exit_code = 1

\* C2: after `create react-component MyButton` without errors, the template
\* file COMPONENT_NAME.tsx is named MyButton.tsx and its content
\* COMPONENT_NAME:... begins with MyButton:, with no COMPONENT_NAME left.
C2_PascalNameAndContent ==
    (CleanSuccess /\ template_name = react_component /\ new_item_name = MyButton
        /\ FileTsx \in tree)
        => \E f \in DestFiles :
               /\ f.id = FileTsx.id
               /\ f.name = MyButton \o <<".", "t", "s", "x">>
               /\ StartsWith(f.body, MyButton \o <<":">>)
               /\ ~Contains(f.body, COMPONENT_NAME)

\* the part of a content after its first colon
AfterColon(body) == SubSeq(body, IndexIn(body, ":") + 1, Len(body))

\* C3: after `create react-component MyButton` without errors, the token
\* component_name_kebab of the content has become exactly my-button.
C3_KebabTokenBecomesMyButton ==
    (CleanSuccess /\ template_name = react_component /\ new_item_name = MyButton
        /\ FileTsx \in tree)
        => \E f \in DestFiles :
               /\ f.id = FileTsx.id
               /\ ":" \in Range(f.body)
               /\ AfterColon(f.body) = <<"m", "y", "-", "b", "u", "t", "t", "o", "n">>

\* a name with every placeholder applied in order, each on the result of the one before
RECURSIVE AllReplaced(_, _, _)
AllReplaced(name, phs, i) ==
    IF i > Len(phs) THEN name ELSE AllReplaced(replace(name, phs[i][1], phs[i][2]), phs, i + 1)
TokensIn(name, phs) == {i \in 1..Len(phs) : Contains(name, phs[i][1])}

\* C4: after a create run without errors in which no file was lost, every
\* template file whose name holds two or more placeholder tokens has the
\* name with all of them replaced, in declared order.
C4_AllTokensOfNameReplaced ==
    (CleanSuccess /\ Cardinality(DestFiles) = Cardinality(tree))
        => \A t \in tree :
               LET phs == placeholders(template_name, new_item_name)
               IN  Cardinality(TokensIn(t.name, phs)) >= 2
                       => \E f \in DestFiles :
                              f.id = t.id /\ f.dir = t.dir /\ f.name = AllReplaced(t.name, phs, 1)

\* C5: a create run in which a rename or a content rewrite of some file has
\* failed ends with the success line and exit code 0, the walk having taken
\* up every file.
C5_RewriteFailureNotFatal ==
    (pc = "done" /\ cmd = "create" /\ (HasLine("error_processing") \/ HasLine("traceback_OSError")))
        => /\ exit_code = 0
           /\ HasLine("successfully_created")
           /\ entry = Cardinality(tree)

\* C6: when create has ended with success, every template file that is not
\* decodable is in the destination with the template's bytes and was never
\* opened for writing.
C6_BinaryUntouched ==
    (pc = "done" /\ cmd = "create" /\ exit_code = 0)
        => \A t \in tree :
               ~Decodable(t.body)
                   => /\ \E f \in DestFiles : f.id = t.id /\ f.body = t.body
                      /\ \A i \in Touching(t.id) : fsLog[i].op # "open_w"

\* a stage of create before git has failed fatally
StageFailed ==
    \/ HasLine("error_template_not_found")
    \/ HasLine("error_destination_exists")
    \/ HasLine("error_copying")
    \/ HasLine("traceback_OSError")

\* C7: once a git command has been executed, the template was found, the
\* whole template was copied, no stage has failed fatally and the walk has
\* ended having taken up every file; a run that has failed fatally or ended
\* with exit code 1 has executed no git command.
C7_GitOnlyAfterAllStages ==
    /\ gitLog # <<>>
           => /\ cmd = "create"
              /\ ~StageFailed
              /\ TemplateDir(template_name) \in catalog
              /\ \A t \in tree : \E i \in 1..Len(fsLog) : fsLog[i].op = "open_wb" /\ fsLog[i].id = t.id
              /\ HasLine("successfully_created")
              /\ pc \in {"git_add", "done"} /\ stack = <<>> /\ walkFiles = <<>>
              /\ entry = Cardinality(tree)
    /\ (StageFailed \/ exit_code = 1) => gitLog = <<>>

\* C7 witness: both git commands ran after a walk over a tree with files
C7_Witness ==
    /\ pc = "done"
    /\ tree # {}
    /\ \E i \in 1..Len(gitLog) : gitLog[i].cmd = "checkout -b feat/"
    /\ \E i \in 1..Len(gitLog) : gitLog[i].cmd = "add"

\* the template names printed, in the order printed
PrintedNames ==
    LET lines == SelectSeq(out, LAMBDA l : l.kind = "template")
    IN  [i \in 1..Len(lines) |-> lines[i].text]

\* C8: list always ends with exit code 0; with a readable catalog it prints
\* exactly the names of the directories of the catalog root, each once, in
\* lexicographic order, and the none-found notice when there are none.
C8_ListExitsZeroAndSorted ==
    (pc = "done" /\ cmd = "list")
        => /\ exit_code = 0
           /\ catalogMode \in {"resource", "fnf_dir"}
                  => LET templates == {c.name : c \in {x \in catalog : x.is_dir}}
                     IN  /\ Range(PrintedNames) = templates
                         /\ \A i, j \in 1..Len(PrintedNames) :
                                i < j => LexLess(PrintedNames[i], PrintedNames[j])
                         /\ templates = {} <=> HasLine("no_templates_found")

\* C9: every file is touched by the processing of one walk entry only, its
\* content is read at most once, and no rename of it follows its read.
C9_FileProcessedOnce ==
    \A t \in tree :
        /\ \A i, j \in Touching(t.id) : fsLog[i].entry = fsLog[j].entry
        /\ Cardinality({i \in Touching(t.id) : fsLog[i].op = "open_r" /\ fsLog[i].id = t.id}) <= 1
        /\ \A i, j \in Touching(t.id) :
               (fsLog[i].op = "open_r" /\ fsLog[j].op = "rename" /\ fsLog[j].id = t.id) => j < i

\* C10: once create has printed the success line, the destination tree holds
\* as many files as the template tree, one for each template file.
C10_NoFileLost ==
    HasLine("successfully_created")
        => /\ Cardinality(DestFiles) = Cardinality(tree)
           /\ \A t \in tree : \E f \in DestFiles : f.id = t.id

====
